---- MODULE Spec2Model ----
(***************************************************************************)
(* Model of awscli/formatter.py: the table formatter's decomposition of a  *)
(* nested response value into section / header-row / row directives        *)
(* (TableFormatter._build_table and helpers), and the buffered formatter's *)
(* call protocol (FullyBufferedFormatter.__call__).                        *)
(*                                                                         *)
(* Python values are tagged records [k, v]:                                *)
(*   k = "N"  None                                                         *)
(*   k = "S"  str, v the text                                              *)
(*   k = "I"  int, v the number                                            *)
(*   k = "L"  list, v the sequence of elements                             *)
(*   k = "D"  dict, v the sequence of <<key, value>> pairs in the dict's   *)
(*            iteration (insertion) order, keys unique                     *)
(***************************************************************************)
EXTENDS Integers, Sequences, FiniteSets, TLC

VARIABLES
    title,          \* the title / operation.name handed to the call
    indent,         \* the indent_level handed to _build_table
    current,        \* the value / response handed to the call
    table,          \* self.table: the directives appended so far
    ret,            \* what _build_table returned: "True", "False", or "none"
                    \* (not called yet, or it raised)
    error,          \* the exception that left the call ("ok" if none)
    pc,             \* "ready", "built" (after _build_table), "called" (after __call__)
    response_data,  \* __call__: the response after _remove_request_id
    written,        \* __call__: number of directives render() wrote to the stream
    consumer_gone,  \* __call__: a write to the stream failed with IOError
    flushes         \* __call__: number of stream.flush() calls

vars == <<title, indent, current, table, ret, error, pc,
          response_data, written, consumer_gone, flushes>>

-----------------------------------------------------------------------------
(* Bounds of the input space *)

\* most nodes (scalars and containers) of an enumerated input value
MaxSize == 4
\* largest indent_level handed to _build_table
MaxIndent == 1
\* most directives the stream takes before a consumer that goes away is gone
MaxFailAt == 1

-----------------------------------------------------------------------------
(* Python values *)

None == [k |-> "N", v |-> "None"]
Str(s) == [k |-> "S", v |-> s]
Num(i) == [k |-> "I", v |-> i]
List(s) == [k |-> "L", v |-> s]
Dict(p) == [k |-> "D", v |-> p]

\* bool(value): None, '', 0, [] and {} are false
Truthy(c) ==
    CASE c.k = "N" -> FALSE
      [] c.k = "S" -> c.v # ""
      [] c.k = "I" -> c.v # 0
      [] OTHER -> Len(c.v) > 0

\* key in d, d[key], d.get(key, default) on a dict's pairs
Has(p, key) == \E i \in 1..Len(p) : p[i][1] = key
Get(p, key) == p[CHOOSE i \in 1..Len(p) : p[i][1] = key][2]
GetDefault(p, key, default) == IF Has(p, key) THEN Get(p, key) ELSE default

\* The keys that occur, in Python's str order (upper case sorts before lower case)
KeyOrder ==
    <<"Errors", "RequestId", "ResponseMetadata", "id", "tags", "x", "y">>
Rank(key) == CHOOSE i \in 1..Len(KeyOrder) : KeyOrder[i] = key
KeyLt(a, b) == Rank(a) < Rank(b)

\* list.sort(): insertion of each element in turn into the sorted prefix
RECURSIVE InsertSorted(_, _)
InsertSorted(s, key) ==
    IF s = <<>> THEN <<key>>
    ELSE IF KeyLt(key, Head(s)) THEN <<key>> \o s
    ELSE <<Head(s)>> \o InsertSorted(Tail(s), key)

RECURSIVE SortList(_)
SortList(s) ==
    IF s = <<>> THEN <<>>
    ELSE InsertSorted(SortList(Tail(s)), Head(s))

\* list(sorted(a_set))
RECURSIVE Sorted(_)
Sorted(S) ==
    IF S = {} THEN <<>>
    ELSE LET m == CHOOSE a \in S : \A b \in S : a = b \/ KeyLt(a, b)
         IN  <<m>> \o Sorted(S \ {m})

Range(s) == {s[i] : i \in 1..Len(s)}

-----------------------------------------------------------------------------
(* Directives appended to self.table *)

NewSection(t, n) == [d |-> "NewSection", title |-> t, indent |-> n]
\* labels are keys: the cells of a header row are strs
AddHeaderRow(labels) ==
    [d |-> "AddHeaderRow", cells |-> [i \in 1..Len(labels) |-> Str(labels[i])]]
AddRow(cells) == [d |-> "AddRow", cells |-> cells]

\* Outcome of a piece of code: the directives it appended and the exception
\* that ended it ("ok" when it ran to its end)
Ok(out) == [out |-> out, err |-> "ok"]
Raised(out, e) == [out |-> out, err |-> e]
\* first, then (unless first raised) second
Then(first, second) ==
    IF first.err # "ok" THEN first
    ELSE [out |-> first.out \o second.out, err |-> second.err]

-----------------------------------------------------------------------------
(* TableFormatter *)

_scalar_type(element) == element.k \notin {"L", "D"}

\* Keys of a dict's pairs, in iteration order, whose value satisfies / fails
\* _scalar_type
RECURSIVE KeysWhere(_, _)
KeysWhere(p, scalar) ==
    IF p = <<>> THEN <<>>
    ELSE (IF _scalar_type(p[1][2]) = scalar THEN <<p[1][1]>> ELSE <<>>)
         \o KeysWhere(Tail(p), scalar)

\* _group_scalar_keys without the two sort() calls: keys in iteration order
_group_scalar_keys_unsorted(c) ==
    CASE c.k = "D" ->
            [headers |-> KeysWhere(c.v, TRUE),
             more |-> KeysWhere(c.v, FALSE),
             err |-> "ok"]
      [] c.k \in {"S", "L"} /\ ~Truthy(c) ->
            [headers |-> <<>>, more |-> <<>>, err |-> "ok"]
      [] OTHER ->
            [headers |-> <<>>, more |-> <<>>, err |-> "TypeError"]

\* `for element in current: ... current[element]` on a value.  On a dict it
\* partitions the keys.  On a str or list it iterates the characters or
\* elements and indexes the value with each one, which raises TypeError at
\* the first of them (no element of a list is an int where this is reached),
\* so only '' and [] pass, with no keys.  None and int are not iterable.
_group_scalar_keys(c) ==
    CASE c.k = "D" ->
            [headers |-> SortList(KeysWhere(c.v, TRUE)),
             more |-> SortList(KeysWhere(c.v, FALSE)),
             err |-> "ok"]
      [] c.k \in {"S", "L"} /\ ~Truthy(c) ->
            [headers |-> <<>>, more |-> <<>>, err |-> "ok"]
      [] OTHER ->
            [headers |-> <<>>, more |-> <<>>, err |-> "TypeError"]

\* _group_scalar_keys_from_list that takes the keys of the first element only
_group_scalar_keys_from_first(list_of_dicts) ==
    LET n == Len(list_of_dicts)
        g(i) == _group_scalar_keys(list_of_dicts[i])
    IN  IF \E i \in 1..n : g(i).err # "ok"
        THEN [headers |-> <<>>, more |-> <<>>, err |-> "TypeError"]
        ELSE [headers |-> Sorted(Range(g(1).headers)),
              more |-> Sorted(UNION {Range(g(i).more) : i \in 1..n}),
              err |-> "ok"]

_group_scalar_keys_from_list(list_of_dicts) ==
    LET n == Len(list_of_dicts)
        g(i) == _group_scalar_keys(list_of_dicts[i])
    IN  IF \E i \in 1..n : g(i).err # "ok"
        THEN [headers |-> <<>>, more |-> <<>>, err |-> "TypeError"]
        ELSE [headers |-> Sorted(UNION {Range(g(i).headers) : i \in 1..n}),
              more |-> Sorted(UNION {Range(g(i).more) : i \in 1..n}),
              err |-> "ok"]

RECURSIVE _build_table(_, _, _)
RECURSIVE _build_sub_table_from_dict(_, _)
RECURSIVE _build_sub_table_from_list(_, _, _)
RECURSIVE BuildRemaining(_, _, _, _)
RECURSIVE BuildElements(_, _, _, _, _, _)

\* `for remaining in more: [if remaining in element:] self._build_table(...)`
\* over the keys more[j..]; checked is TRUE for the loop that tests presence.
\* A str or list element contains no key.
BuildRemaining(more, element, indent_level, checked) ==
    IF more = <<>> THEN Ok(<<>>)
    ELSE LET present == IF element.k = "D" THEN Has(element.v, Head(more))
                        ELSE FALSE
             this == IF checked /\ ~present THEN Ok(<<>>)
                     ELSE _build_table(Head(more), Get(element.v, Head(more)),
                                       indent_level + 1)
         IN  Then(this, BuildRemaining(Tail(more), element, indent_level, checked))

\* _build_sub_table_from_dict without the special case of a single scalar key
_build_sub_table_from_dict_tabular(c, indent_level) ==
    LET g == _group_scalar_keys(c)
        headers == g.headers
        own == IF headers # <<>>
               THEN <<AddHeaderRow(headers),
                      AddRow([i \in 1..Len(headers) |-> Get(c.v, headers[i])])>>
               ELSE <<>>
    IN  Then(Ok(own), BuildRemaining(g.more, c, indent_level, FALSE))

_build_sub_table_from_dict(c, indent_level) ==
    LET g == _group_scalar_keys(c)
        headers == g.headers
        own == IF Len(headers) = 1
               THEN <<AddRow(<<Str(headers[1]), Get(c.v, headers[1])>>)>>
               ELSE IF headers # <<>>
               THEN <<AddHeaderRow(headers),
                      AddRow([i \in 1..Len(headers) |-> Get(c.v, headers[i])])>>
               ELSE <<>>
    IN  Then(Ok(own), BuildRemaining(g.more, c, indent_level, FALSE))

\* BuildElements that repeats only the header, not the section, before the
\* rows after the first
BuildElementsHeaderOnly(elements, i, headers, more, indent_level, ttl) ==
    IF i > Len(elements) THEN Ok(<<>>)
    ELSE LET element == elements[i]
             anchor == IF i > 1 /\ more # <<>>
                       THEN <<AddHeaderRow(headers)>>
                       ELSE <<>>
             row == IF element.k # "D" /\ headers # <<>>
                    THEN Raised(<<>>, "AttributeError")
                    ELSE Ok(<<AddRow([j \in 1..Len(headers) |->
                                 GetDefault(element.v, headers[j], Str(""))])>>)
             this == Then(Then(Ok(anchor), row),
                          BuildRemaining(more, element, indent_level, TRUE))
         IN  Then(this, BuildElements(elements, i + 1, headers, more,
                                      indent_level, ttl))

\* The body of `for element in current` for the elements from index i on.
\* element.get raises AttributeError on a str or list element once there is
\* a header to look up.
BuildElements(elements, i, headers, more, indent_level, ttl) ==
    IF i > Len(elements) THEN Ok(<<>>)
    ELSE LET element == elements[i]
             anchor == IF i > 1 /\ more # <<>>
                       THEN <<NewSection(ttl, indent_level), AddHeaderRow(headers)>>
                       ELSE <<>>
             row == IF element.k # "D" /\ headers # <<>>
                    THEN Raised(<<>>, "AttributeError")
                    ELSE Ok(<<AddRow([j \in 1..Len(headers) |->
                                 GetDefault(element.v, headers[j], Str(""))])>>)
             this == Then(Then(Ok(anchor), row),
                          BuildRemaining(more, element, indent_level, TRUE))
         IN  Then(this, BuildElements(elements, i + 1, headers, more,
                                      indent_level, ttl))

_build_sub_table_from_list(elements, indent_level, ttl) ==
    LET g == _group_scalar_keys_from_list(elements)
    IN  IF g.err # "ok" THEN Raised(<<>>, g.err)
        ELSE Then(Ok(<<AddHeaderRow(g.headers)>>),
                  BuildElements(elements, 1, g.headers, g.more, indent_level, ttl))

\* Returns [out, err, ret]: ret is the returned bool, "none" if it raised
_build_table(ttl, c, indent_level) ==
    IF ~Truthy(c) THEN [out |-> <<>>, err |-> "ok", ret |-> "False"]
    ELSE LET body ==
                 IF c.k = "L"
                 THEN IF c.v[1].k = "D"
                      THEN _build_sub_table_from_list(c.v, indent_level, ttl)
                      ELSE Ok([i \in 1..Len(c.v) |-> AddRow(<<c.v[i]>>)])
                 ELSE IF c.k = "D"
                 THEN _build_sub_table_from_dict(c, indent_level)
                 ELSE Ok(<<>>)
             r == Then(Ok(<<NewSection(ttl, indent_level)>>), body)
         IN  [out |-> r.out, err |-> r.err,
              ret |-> IF r.err = "ok" THEN "True" ELSE "none"]

-----------------------------------------------------------------------------
(* Formatter, FullyBufferedFormatter *)

\* `key in value` for the two keys _remove_request_id looks for: a key of a
\* dict, an element of a list, a substring of a str (no str of the input
\* space has one of these names as a substring); None and int raise.
Contains(c, key) ==
    CASE c.k = "D" -> Has(c.v, key)
      [] c.k = "L" -> Str(key) \in Range(c.v)
      [] OTHER -> FALSE

RECURSIVE Without(_, _)
Without(p, key) ==
    IF p = <<>> THEN <<>>
    ELSE (IF p[1][1] = key THEN <<>> ELSE <<p[1]>>) \o Without(Tail(p), key)

\* Returns [data, err]: the response after the deletion, or the exception
_remove_request_id(response) ==
    IF response.k \in {"N", "I"} THEN [data |-> response, err |-> "TypeError"]
    ELSE IF ~Contains(response, "Errors") /\ Contains(response, "ResponseMetadata")
    THEN IF response.k # "D" \/ Get(response.v, "ResponseMetadata").k \in {"N", "I"}
         THEN [data |-> response, err |-> "TypeError"]
         ELSE [data |-> Dict(Without(response.v, "ResponseMetadata")), err |-> "ok"]
    ELSE [data |-> response, err |-> "ok"]

\* self.table.render(stream): writes the directives in order.  fail_at is
\* the number of directives the stream takes before its consumer goes away,
\* -1 for a consumer that stays; a write after that raises IOError.
\* Returns [written, err].
Render(tbl, fail_at) ==
    IF fail_at >= 0 /\ fail_at < Len(tbl)
    THEN [written |-> fail_at, err |-> "IOError"]
    ELSE [written |-> Len(tbl), err |-> "ok"]

\* TableFormatter._format_response.  Returns [table, written, gone, err]:
\* gone tells that render raised IOError, err is the exception that leaves
\* _format_response.
_format_response(name, response, fail_at) ==
    LET b == _build_table(name, response, 0)
        r == Render(b.out, fail_at)
    IN  IF b.err # "ok"
        THEN [table |-> b.out, written |-> 0, gone |-> FALSE, err |-> b.err]
        ELSE IF b.ret = "True"
        THEN [table |-> b.out, written |-> r.written,
              gone |-> r.err = "IOError",
              err |-> IF r.err = "IOError" THEN "ok" ELSE r.err]
        ELSE [table |-> b.out, written |-> 0, gone |-> FALSE, err |-> "ok"]

\* FormatAndFlush with the flush after the try body instead of in a finally
\* clause: an exception skips it
FormatThenFlush(name, response, fail_at) ==
    LET rm == _remove_request_id(response)
        f == _format_response(name, rm.data, fail_at)
    IN  IF rm.err # "ok"
        THEN [data |-> rm.data, table |-> <<>>, written |-> 0, gone |-> FALSE,
              err |-> rm.err, flushes |-> 0]
        ELSE [data |-> rm.data, table |-> f.table, written |-> f.written,
              gone |-> f.gone, err |-> f.err,
              flushes |-> IF f.err = "ok" THEN 1 ELSE 0]

\* FullyBufferedFormatter.__call__ from the try on (response_data is the
\* response in both branches of the pagination test): the try body, then the
\* finally clause's flush whether or not the body raised.  Returns
\* [data, table, written, gone, err, flushes].
FormatAndFlush(name, response, fail_at) ==
    LET rm == _remove_request_id(response)
        f == _format_response(name, rm.data, fail_at)
    IN  IF rm.err # "ok"
        THEN [data |-> rm.data, table |-> <<>>, written |-> 0, gone |-> FALSE,
              err |-> rm.err, flushes |-> 1]
        ELSE [data |-> rm.data, table |-> f.table, written |-> f.written,
              gone |-> f.gone, err |-> f.err, flushes |-> 1]

-----------------------------------------------------------------------------
(* The input space *)

Titles == {"Items", "T"}
Leaves == {None, Str(""), Str("a")}
KeySeqs == {<<>>, <<"x">>, <<"y">>, <<"x", "y">>, <<"y", "x">>}

RECURSIVE ValuesOfSize(_)
RECURSIVE Tuples(_, _)

\* The l-tuples of values whose sizes (numbers of nodes) add up to total
Tuples(total, l) ==
    IF l = 0 THEN (IF total = 0 THEN {<<>>} ELSE {})
    ELSE UNION {{<<x>> \o r : x \in ValuesOfSize(s), r \in Tuples(total - s, l - 1)} :
                s \in 1..total}

ValuesOfSize(n) ==
    (IF n = 1 THEN Leaves ELSE {})
    \cup {List(t) : t \in UNION {Tuples(n - 1, l) : l \in 0..(n - 1)}}
    \cup UNION {{Dict([i \in 1..Len(ks) |-> <<ks[i], t[i]>>]) :
                   t \in Tuples(n - 1, Len(ks))} : ks \in KeySeqs}

Values == UNION {ValuesOfSize(n) : n \in 1..MaxSize}

\* Larger inputs: a list of dicts with nested lists, a list of dicts with
\* differing scalar keys, a list of dicts whose first element nests a list
\* that starts with a dict and goes on with None, a list that starts with
\* None and goes on with a two-key dict
NestedAnchoringInput ==
    List(<<Dict(<< <<"id", Num(1)>>, <<"tags", List(<<Str("a"), Str("b")>>)>> >>),
           Dict(<< <<"id", Num(2)>>, <<"tags", List(<<Str("c")>>)>> >>)>>)
ColumnUnionInput ==
    List(<<Dict(<< <<"x", Str("a")>> >>), Dict(<<>>), Dict(<< <<"y", Str("b")>> >>)>>)
MixedNestedInput ==
    List(<<Dict(<< <<"x", List(<<Dict(<<>>), None>>)>> >>), Dict(<<>>)>>)
DictElementInput ==
    List(<<None, Dict(<< <<"x", Str("a")>>, <<"y", Str("")>> >>)>>)
Examples ==
    {NestedAnchoringInput, ColumnUnionInput, MixedNestedInput, DictElementInput}

Inputs == Values \cup Examples

\* The transport envelope a response may carry
WithEnvelope(c, env) ==
    IF c.k # "D" \/ env = "bare" THEN c
    ELSE LET meta == <<"ResponseMetadata", Dict(<< <<"RequestId", Str("r")>> >>)>>
             errors == <<"Errors", List(<<Str("e")>>)>>
         IN  IF env = "meta" THEN Dict(c.v \o <<meta>>)
             ELSE Dict(c.v \o <<meta, errors>>)

-----------------------------------------------------------------------------
(* The state machine *)

Init ==
    /\ title \in Titles
    /\ indent \in 0..MaxIndent
    /\ current \in Inputs
    /\ table = <<>>
    /\ ret = "none"
    /\ error = "ok"
    /\ pc = "ready"
    /\ response_data = None
    /\ written = 0
    /\ consumer_gone = FALSE
    /\ flushes = 0

\* formatter._build_table(title, current, indent_level=indent) on a new formatter
Build ==
    /\ pc = "ready"
    /\ \E b \in {_build_table(title, current, indent)} :
           /\ table' = b.out
           /\ ret' = b.ret
           /\ error' = b.err
    /\ pc' = "built"
    /\ UNCHANGED <<title, indent, current, response_data, written,
                   consumer_gone, flushes>>

\* formatter(operation, response, stream) with operation.name = title
Call ==
    /\ pc = "ready"
    /\ indent = 0
    /\ \E env \in {"bare", "meta", "errors"}, fail_at \in (-1)..MaxFailAt :
         \E c \in {FormatAndFlush(title, WithEnvelope(current, env), fail_at)} :
             /\ response_data' = c.data
             /\ table' = c.table
             /\ written' = c.written
             /\ consumer_gone' = c.gone
             /\ error' = c.err
             /\ flushes' = c.flushes
    /\ pc' = "called"
    /\ UNCHANGED <<title, indent, current, ret>>

Next == Build \/ Call

Spec == Init /\ [][Next]_vars

-----------------------------------------------------------------------------
(* Reading a directive stream *)

IsSection(d) == d.d = "NewSection"
IsHeader(d) == d.d = "AddHeaderRow"
IsRow(d) == d.d = "AddRow"

\* The section the i-th directive belongs to: the last NewSection at or
\* before it (every stream _build_table appends starts with one)
SectionOf(tbl, i) ==
    CHOOSE j \in 1..i : /\ IsSection(tbl[j])
                        /\ \A m \in (j + 1)..i : ~IsSection(tbl[m])
LevelAt(tbl, i) == tbl[SectionOf(tbl, i)].indent

\* The directives at the indices in I, in stream order
RECURSIVE Pick(_, _, _)
Pick(tbl, I, i) ==
    IF i > Len(tbl) THEN <<>>
    ELSE (IF i \in I THEN <<tbl[i]>> ELSE <<>>) \o Pick(tbl, I, i + 1)

\* The header rows / rows of the sections at indent level lvl
OwnHeaders(tbl, lvl) ==
    Pick(tbl, {i \in 1..Len(tbl) : IsHeader(tbl[i]) /\ LevelAt(tbl, i) = lvl}, 1)
OwnRows(tbl, lvl) ==
    Pick(tbl, {i \in 1..Len(tbl) : IsRow(tbl[i]) /\ LevelAt(tbl, i) = lvl}, 1)

\* What follows the first directive, up to the next NewSection
OwnSegment(tbl) ==
    LET stops == {i \in 2..Len(tbl) : IsSection(tbl[i])}
        stop == IF stops = {} THEN Len(tbl) + 1
                ELSE CHOOSE i \in stops : \A j \in stops : i <= j
    IN  SubSeq(tbl, 2, stop - 1)

\* The keys a header row shows
LabelsOf(header) == [i \in 1..Len(header.cells) |-> header.cells[i].v]
Increasing(ks) == \A i, j \in 1..Len(ks) : i < j => KeyLt(ks[i], ks[j])
\* The keys of S as the one increasing sequence
InOrder(S) ==
    CHOOSE ks \in [1..Cardinality(S) -> S] : Range(ks) = S /\ Increasing(ks)

RECURSIVE Concat(_)
Concat(seqs) == IF seqs = <<>> THEN <<>> ELSE Head(seqs) \o Concat(Tail(seqs))

AllKeys == Range(KeyOrder)
ScalarKeys(p) == {key \in AllKeys : Has(p, key) /\ _scalar_type(Get(p, key))}
NestedKeys(p) == {key \in AllKeys : Has(p, key) /\ ~_scalar_type(Get(p, key))}

IsListOfDicts(c) ==
    c.k = "L" /\ Len(c.v) > 0 /\ \A i \in 1..Len(c.v) : c.v[i].k = "D"
Built == pc = "built"

\* The copies of a value that give every dict, at any depth, its pairs in
\* some other insertion order
RECURSIVE Products(_)
Products(sets) ==
    IF sets = <<>> THEN {<<>>}
    ELSE {<<x>> \o r : x \in Head(sets), r \in Products(Tail(sets))}

RECURSIVE Reorderings(_)
Reorderings(c) ==
    CASE c.k = "L" ->
            {List(t) : t \in Products([i \in 1..Len(c.v) |-> Reorderings(c.v[i])])}
      [] c.k = "D" ->
            UNION {{Dict([i \in 1..Len(c.v) |-> <<c.v[perm[i]][1], t[perm[i]]>>]) :
                      t \in Products([i \in 1..Len(c.v) |-> Reorderings(c.v[i][2])])} :
                   perm \in Permutations(1..Len(c.v))}
      [] OTHER -> {c}

-----------------------------------------------------------------------------
(* Claims *)

\* C1 (as stated): _build_table on an empty dict, an empty list or None
\* returns False and appends nothing; on a non-empty dict or list it returns
\* True and the first directive it appends is NewSection(title, indent_level).
C1_EmptinessSuppression ==
    (Built /\ current.k \in {"N", "L", "D"}) =>
        IF Truthy(current)
        THEN /\ ret = "True"
             /\ Len(table) >= 1
             /\ table[1] = NewSection(title, indent)
        ELSE ret = "False" /\ table = <<>>

\* C2 (as stated): the nested-anchoring input at indent 0 under "Items"
\* yields exactly section Items, header [id], row [1], section tags (1), rows
\* [a], [b], header [id], row [2], section tags (1), row [c].
C2_NestedAnchoringAsStated ==
    (Built /\ current = NestedAnchoringInput /\ title = "Items" /\ indent = 0) =>
        table = <<NewSection("Items", 0), AddHeaderRow(<<"id">>),
                  AddRow(<<Num(1)>>),
                  NewSection("tags", 1), AddRow(<<Str("a")>>), AddRow(<<Str("b")>>),
                  AddHeaderRow(<<"id">>), AddRow(<<Num(2)>>),
                  NewSection("tags", 1), AddRow(<<Str("c")>>)>>

\* C2 (amended): the same input yields that stream with NewSection("Items", 0)
\* appended again right before the second header [id], eleven directives in
\* all, and the call returns True.
C2_NestedAnchoring ==
    (Built /\ current = NestedAnchoringInput /\ title = "Items" /\ indent = 0) =>
        /\ table = <<NewSection("Items", 0), AddHeaderRow(<<"id">>),
                     AddRow(<<Num(1)>>),
                     NewSection("tags", 1), AddRow(<<Str("a")>>), AddRow(<<Str("b")>>),
                     NewSection("Items", 0), AddHeaderRow(<<"id">>),
                     AddRow(<<Num(2)>>),
                     NewSection("tags", 1), AddRow(<<Str("c")>>)>>
        /\ ret = "True"

C2_Witness ==
    /\ Built /\ current = NestedAnchoringInput /\ title = "Items" /\ indent = 0
    /\ Len(table) = 11

\* C3 (as stated): every cell of every AddRow directive _build_table appends
\* is a scalar, whatever the input.
C3_InlineCellsScalar ==
    Built =>
        \A i \in 1..Len(table) :
            IsRow(table[i]) =>
                \A j \in 1..Len(table[i].cells) : _scalar_type(table[i].cells[j])

\* C4 (as stated): every NewSection a build call appends is followed, within
\* that call (before the next NewSection that is not deeper), by an AddRow.
C4_NoTitleAlone ==
    (Built /\ current.k \in {"N", "L", "D"}) =>
        \A i \in 1..Len(table) :
            IsSection(table[i]) =>
                \E j \in (i + 1)..Len(table) :
                    /\ IsRow(table[j])
                    /\ \A m \in (i + 1)..j :
                           IsSection(table[m]) => table[m].indent > table[i].indent

\* C5 (as stated): on a non-empty list whose elements are not all dicts,
\* _build_table completes without error and appends NewSection(title, level)
\* followed by exactly one single-cell AddRow per element, in order, and no
\* AddHeaderRow.
C5_NonMappingSequences ==
    (Built /\ current.k = "L" /\ Len(current.v) > 0 /\ ~IsListOfDicts(current)) =>
        /\ error = "ok"
        /\ ret = "True"
        /\ table = <<NewSection(title, indent)>>
                   \o [i \in 1..Len(current.v) |-> AddRow(<<current.v[i]>>)]

\* C6: on a non-empty list of dicts, every AddHeaderRow at the list's own
\* level shows the keys that are scalar in some element, increasing and
\* without duplicates, and the rows at that level are, in order, the elements'
\* rows: one cell per label, the element's value for the key or '' when the
\* element lacks it (all elements' rows when the call did not raise).
C6_ColumnUnion ==
    (Built /\ IsListOfDicts(current)) =>
        LET elements == current.v
            union == UNION {ScalarKeys(elements[i].v) : i \in 1..Len(elements)}
            headers == OwnHeaders(table, indent)
            rows == OwnRows(table, indent)
        IN  /\ Len(headers) >= 1
            /\ \A h \in 1..Len(headers) :
                   /\ Range(LabelsOf(headers[h])) = union
                   /\ Increasing(LabelsOf(headers[h]))
            /\ Len(rows) <= Len(elements)
            /\ error = "ok" => Len(rows) = Len(elements)
            /\ \A i \in 1..Len(rows) :
                   LET labels == LabelsOf(headers[1])
                   IN  rows[i].cells =
                           [j \in 1..Len(labels) |->
                               GetDefault(elements[i].v, labels[j], Str(""))]

\* a list of dicts where a key is scalar in one element and missing in another
C6_Witness ==
    /\ Built /\ IsListOfDicts(current) /\ error = "ok"
    /\ \E i, j \in 1..Len(current.v) : \E key \in ScalarKeys(current.v[i].v) :
           /\ ~Has(current.v[j].v, key)
           /\ \E r \in 1..Len(table) :
                  IsRow(table[r]) /\ Str("") \in Range(table[r].cells)

\* C7: on a non-empty dict, what _build_table appends between its NewSection
\* and the first sub-section is: with one scalar key k, the single row
\* [k, value] and no header; with two or more, the header of the scalar keys
\* in increasing order and one row of their values in that order; with none,
\* nothing.
C7_MappingLayout ==
    (Built /\ current.k = "D" /\ Truthy(current)) =>
        LET keys == ScalarKeys(current.v)
            own == OwnSegment(table)
        IN  /\ table[1] = NewSection(title, indent)
            /\ CASE Cardinality(keys) = 0 -> own = <<>>
                 [] Cardinality(keys) = 1 ->
                        LET key == CHOOSE a \in keys : TRUE
                        IN  own = <<AddRow(<<Str(key), Get(current.v, key)>>)>>
                 [] OTHER ->
                        /\ Len(own) = 2
                        /\ IsHeader(own[1])
                        /\ Range(LabelsOf(own[1])) = keys
                        /\ Increasing(LabelsOf(own[1]))
                        /\ own[2] = AddRow([j \in 1..Len(own[1].cells) |->
                                              Get(current.v, LabelsOf(own[1])[j])])

\* a dict with exactly one scalar key and a nested key that opens a sub-section
C7_Witness ==
    /\ Built /\ current.k = "D"
    /\ Cardinality(ScalarKeys(current.v)) = 1
    /\ Len(table) >= 3
    /\ IsRow(table[2]) /\ IsSection(table[3])

\* C8 (as stated): _build_table on any copy of the input whose dicts hold the
\* same pairs in another insertion order, with the same title and indent on a
\* new table, appends the same directives (a cell that holds a dict shows the
\* pairs in the dict's iteration order) and returns (or raises) the same.
C8_Determinism ==
    Built =>
        \A copy \in Reorderings(current) :
            _build_table(title, copy, indent) =
                [out |-> table, err |-> error, ret |-> ret]

C10_ListLayout ==
    (Built /\ IsListOfDicts(current)) =>
        LET elements == current.v
            n == Len(elements)
            headers == InOrder(UNION {ScalarKeys(elements[i].v) : i \in 1..n})
            more == InOrder(UNION {NestedKeys(elements[i].v) : i \in 1..n})
            anchor == <<NewSection(title, indent), AddHeaderRow(headers)>>
            row(i) == AddRow([j \in 1..Len(headers) |->
                                GetDefault(elements[i].v, headers[j], Str(""))])
            sub(i, j) == IF Has(elements[i].v, more[j])
                         THEN _build_table(more[j], Get(elements[i].v, more[j]),
                                           indent + 1).out
                         ELSE <<>>
            segment(i) == (IF i > 1 /\ more # <<>> THEN anchor ELSE <<>>)
                          \o <<row(i)>>
                          \o Concat([j \in 1..Len(more) |-> sub(i, j)])
        IN  /\ error = "ok"
            /\ Len(OwnRows(table, indent)) = n
            /\ table = anchor \o Concat([i \in 1..n |-> segment(i)])

====
